---- MODULE Spec2Model ----
(***************************************************************************)
(* A model of src/main.rs, the /proc based process monitor.                *)
(*                                                                         *)
(* Text is modelled as it is in the program: a string is a sequence of     *)
(* one-character strings, and the parsers are the compositions of          *)
(* str::lines, strip_prefix / starts_with, split_whitespace and            *)
(* str::parse::<u64> that the source writes.  The /proc file system is the *)
(* environment: every read draws its outcome (an I/O error or a text)      *)
(* from a bounded set.                                                     *)
(***************************************************************************)
EXTENDS Integers, Sequences, FiniteSets, TLC

VARIABLES
    pc,        \* position of the running call / of main's loop
    doc,       \* how the text handed to a parser was laid out (line forms)
    content,   \* the text handed to parse_meminfo / parse_process_status
    ret,       \* what the called function returned (or that it panicked)
    collected, \* the records as they were collected, before main sorts them
    procs,     \* Vec<(pid, name, rss_kb)> handed to the presenter / held by main
    n,         \* the presenter's count argument
    direct,    \* TRUE when print_top_processes was called without main's sort
    fs,        \* the outcomes /proc gave to the reads of the current tick
    opened,    \* the entries whose comm and status files the scanner read
    stdout,    \* the lines written by println! since the last sleep
    tick,      \* number of completed iterations of main's loop
    exit       \* how main ended: "running", "Err" (propagated) or "panic"

vars == <<pc, doc, content, ret, collected, procs, n, direct, fs, opened, stdout,
          tick, exit>>

----------------------------------------------------------------------------
(* Bounds of the model *)

\* most lines in a text handed to a parser
MaxLines == 3
\* most records handed to the presenter
MaxProcs == 3
\* most entries the directory iterator of /proc yields
MaxEntries == 2
\* most iterations of main's loop that are explored
MaxTicks == 2

----------------------------------------------------------------------------
(* Characters and strings *)

DigitChars == <<"0", "1", "2", "3", "4", "5", "6", "7", "8", "9">>

\* char::is_ascii_digit
is_ascii_digit(c) == \E i \in 1..10 : DigitChars[i] = c

\* the value of an ASCII digit
DigitVal(c) == (CHOOSE i \in 1..10 : DigitChars[i] = c) - 1

\* char::is_whitespace, on the characters of the model's alphabet
is_whitespace(c) == c \in {" ", "\t", "\n", "\r"}

MemTotalLabel == <<"M", "e", "m", "T", "o", "t", "a", "l", ":">>
MemAvailableLabel == <<"M", "e", "m", "A", "v", "a", "i", "l", "a", "b", "l", "e", ":">>
VmRSSLabel == <<"V", "m", "R", "S", "S", ":">>
OtherLabel == <<"S", "o", "m", "e", "O", "t", "h", "e", "r", "V", "a", "l", "u", "e", ":">>
NameLabel == <<"N", "a", "m", "e", ":">>

\* u64::MAX in decimal
U64MaxDigits == <<"1", "8", "4", "4", "6", "7", "4", "4", "0", "7",
                  "3", "7", "0", "9", "5", "5", "1", "6", "1", "5">>

\* str::starts_with
starts_with(s, p) == Len(p) <= Len(s) /\ SubSeq(s, 1, Len(p)) = p

\* str::strip_prefix: Some(rest) or None
strip_prefix(s, p) ==
    IF starts_with(s, p)
    THEN [kind |-> "Some", val |-> SubSeq(s, Len(p) + 1, Len(s))]
    ELSE [kind |-> "None"]

\* index of the first "\n" of s, 0 when there is none
FirstNewline(s) ==
    IF \E i \in 1..Len(s) : s[i] = "\n"
    THEN CHOOSE i \in 1..Len(s) : s[i] = "\n" /\ \A j \in 1..(i - 1) : s[j] # "\n"
    ELSE 0

\* str::lines: split after every "\n"; a line loses its "\n" and a "\r" before it;
\* a last piece without "\n" is kept as it is, and an empty rest yields nothing
RECURSIVE lines(_)
lines(s) ==
    IF s = <<>> THEN <<>>
    ELSE LET k == FirstNewline(s)
         IN IF k = 0 THEN <<s>>
            ELSE LET l == SubSeq(s, 1, k - 1)
                     l2 == IF l # <<>> /\ l[Len(l)] = "\r"
                           THEN SubSeq(l, 1, Len(l) - 1) ELSE l
                 IN <<l2>> \o lines(SubSeq(s, k + 1, Len(s)))

\* length of the longest prefix of s made of whitespace (ws = TRUE) or of
\* non-whitespace (ws = FALSE)
RECURSIVE RunLen(_, _)
RunLen(s, ws) ==
    IF s = <<>> \/ is_whitespace(s[1]) # ws THEN 0
    ELSE 1 + RunLen(Tail(s), ws)

\* str::split_whitespace, collected: the maximal runs of non-whitespace
RECURSIVE split_whitespace(_)
split_whitespace(s) ==
    LET t == SubSeq(s, RunLen(s, TRUE) + 1, Len(s))
        k == RunLen(t, FALSE)
    IN IF t = <<>> THEN <<>>
       ELSE <<SubSeq(t, 1, k)>> \o split_whitespace(SubSeq(t, k + 1, Len(t)))

\* str::trim
RECURSIVE trim_end(_)
trim_end(s) ==
    IF s = <<>> \/ ~is_whitespace(s[Len(s)]) THEN s
    ELSE trim_end(SubSeq(s, 1, Len(s) - 1))

trim(s) == trim_end(SubSeq(s, RunLen(s, TRUE) + 1, Len(s)))

\* digits without their leading zeros
RECURSIVE StripZeros(_)
StripZeros(d) ==
    IF d # <<>> /\ d[1] = "0" THEN StripZeros(Tail(d)) ELSE d

\* a < b for digit strings of the same length
RECURSIVE LexLess(_, _)
LexLess(a, b) ==
    IF a = <<>> THEN FALSE
    ELSE IF a[1] # b[1] THEN DigitVal(a[1]) < DigitVal(b[1])
    ELSE LexLess(Tail(a), Tail(b))

\* the digit string denotes a number above u64::MAX
ExceedsU64(d) ==
    LET sig == StripZeros(d)
    IN \/ Len(sig) > Len(U64MaxDigits)
       \/ Len(sig) = Len(U64MaxDigits) /\ LexLess(U64MaxDigits, sig)

RECURSIVE DigitsValue(_)
DigitsValue(d) ==
    IF d = <<>> THEN 0
    ELSE 10 * DigitsValue(SubSeq(d, 1, Len(d) - 1)) + DigitVal(d[Len(d)])

\* str::parse::<u64>: an optional "+", then one or more ASCII digits, the
\* number at most u64::MAX
parse_u64(tok) ==
    LET body == IF tok # <<>> /\ tok[1] = "+" THEN Tail(tok) ELSE tok
    IN IF tok = <<>> THEN [kind |-> "Err", err |-> "Empty"]
       ELSE IF body = <<>> \/ \E i \in 1..Len(body) : ~is_ascii_digit(body[i])
            THEN [kind |-> "Err", err |-> "InvalidDigit"]
       ELSE IF ExceedsU64(body) THEN [kind |-> "Err", err |-> "PosOverflow"]
       ELSE [kind |-> "Ok", val |-> DigitsValue(body)]

\* Display of an unsigned integer ({} in println!)
RECURSIVE to_decimal(_)
to_decimal(v) ==
    IF v < 10 THEN <<DigitChars[v + 1]>>
    ELSE to_decimal(v \div 10) \o <<DigitChars[(v % 10) + 1]>>

----------------------------------------------------------------------------
(* Results *)

None == [kind |-> "None"]
Some(v) == [kind |-> "Some", val |-> v]
Ok(v) == [kind |-> "Ok", val |-> v]
\* an io::Error carried by an io::Result
Err == [kind |-> "Err"]
\* Option::unwrap / Result::unwrap on None / Err: the thread panics
Panic == [kind |-> "panic"]
\* no call has returned yet
NoRet == [kind |-> "pending"]

----------------------------------------------------------------------------
(* Memory parsing *)

\* value.split_whitespace().next().unwrap().parse().unwrap()
mem_value_nth1(value) ==
    LET toks == split_whitespace(value)
    IN IF Len(toks) < 2 THEN Panic
       ELSE LET p == parse_u64(toks[2])
            IN IF p.kind = "Ok" THEN Ok(p.val) ELSE Panic

mem_value(value) ==
    LET toks == split_whitespace(value)
    IN IF toks = <<>> THEN Panic
       ELSE LET p == parse_u64(toks[1])
            IN IF p.kind = "Ok" THEN Ok(p.val) ELSE Panic

\* the for loop of parse_meminfo over the lines still to read
RECURSIVE parse_meminfo_loop(_, _, _)
parse_meminfo_loop(ls, total, available) ==
    IF ls = <<>> THEN Ok(<<total, available>>)
    ELSE LET line == Head(ls)
             t == strip_prefix(line, MemTotalLabel)
             a == strip_prefix(line, MemAvailableLabel)
         IN IF t.kind = "Some"
            THEN LET v == mem_value(t.val)
                 IN IF v.kind = "Ok"
                    THEN parse_meminfo_loop(Tail(ls), v.val, available)
                    ELSE Panic
            ELSE IF a.kind = "Some"
            THEN LET v == mem_value(a.val)
                 IN IF v.kind = "Ok"
                    THEN parse_meminfo_loop(Tail(ls), total, v.val)
                    ELSE Panic
            ELSE parse_meminfo_loop(Tail(ls), total, available)

parse_meminfo(text) == parse_meminfo_loop(lines(text), 0, 0)

\* fs::read_to_string(path)? then parse_meminfo; `read` is what the read gave
read_meminfo_from_default(read) ==
    IF read.kind = "Err" THEN parse_meminfo(<<>>) ELSE parse_meminfo(read.val)

read_meminfo_from(read) ==
    IF read.kind = "Err" THEN Err ELSE parse_meminfo(read.val)

----------------------------------------------------------------------------
(* Process parsing *)

is_vmrss_line_trimmed(l) == starts_with(trim(l), VmRSSLabel)

\* |l| l.starts_with("VmRSS:")
is_vmrss_line(l) == starts_with(l, VmRSSLabel)

\* Iterator::find: the first line the predicate accepts
RECURSIVE find_vmrss(_)
find_vmrss(ls) ==
    IF ls = <<>> THEN None
    ELSE IF is_vmrss_line(Head(ls)) THEN Some(Head(ls))
    ELSE find_vmrss(Tail(ls))

rss_field_nth0(line) ==
    LET toks == split_whitespace(line)
    IN IF Len(toks) < 1 THEN None ELSE Some(toks[1])

\* line.split_whitespace().nth(1)
rss_field(line) ==
    LET toks == split_whitespace(line)
    IN IF Len(toks) < 2 THEN None ELSE Some(toks[2])

parse_process_status(status) ==
    LET found == find_vmrss(lines(status))
    IN IF found.kind = "None" THEN None
       ELSE LET field == rss_field(found.val)
            IN IF field.kind = "None" THEN None
               ELSE LET p == parse_u64(field.val)
                    IN IF p.kind = "Ok" THEN Some(p.val) ELSE None

----------------------------------------------------------------------------
(* The texts handed to the parsers.  A text is laid out from line forms:   *)
(* optional leading blanks, a label, a gap of whitespace, a value token    *)
(* and an optional unit, as in the inputs of the unit tests.               *)

Spaces(k) == [i \in 1..k |-> " "]

\* u64::MAX + 1 in decimal
TooBigDigits == <<"1", "8", "4", "4", "6", "7", "4", "4", "0", "7",
                  "3", "7", "0", "9", "5", "5", "1", "6", "1", "6">>

Form(lead, label, gap, tok, num, unit) ==
    [lead |-> lead, label |-> label, gap |-> gap, tok |-> tok, num |-> num,
     unit |-> unit]

TokText(f) ==
    CASE f.tok = "num" -> to_decimal(f.num)
      [] f.tok = "plus" -> <<"+">> \o to_decimal(f.num)
      [] f.tok = "nan" -> <<"x">>
      [] f.tok = "big" -> TooBigDigits
      [] f.tok = "none" -> <<>>

RenderLine(f) ==
    Spaces(f.lead) \o f.label \o f.gap \o TokText(f)
        \o (IF f.unit THEN <<" ", "k", "B">> ELSE <<>>)

\* the lines joined by "\n", with a final "\n" when nl
RECURSIVE Render(_, _)
Render(d, nl) ==
    IF d = <<>> THEN <<>>
    ELSE RenderLine(Head(d))
           \o (IF Len(d) > 1 \/ nl THEN <<"\n">> ELSE <<>>)
           \o Render(Tail(d), nl)

SeqsUpTo(S, k) == UNION {[1..m -> S] : m \in 0..k}

MeminfoForms ==
    { Form(0, MemTotalLabel, Spaces(7), "num", 16384256, TRUE),
      Form(0, MemTotalLabel, <<>>, "num", 7, FALSE),
      Form(0, MemTotalLabel, <<" ">>, "none", 0, FALSE),
      Form(1, MemTotalLabel, <<" ">>, "num", 5, TRUE),
      Form(0, MemTotalLabel, <<" ">>, "plus", 3, TRUE),
      Form(0, MemAvailableLabel, Spaces(4), "num", 2345678, TRUE),
      Form(0, MemAvailableLabel, <<"\t">>, "num", 0, TRUE),
      Form(0, MemAvailableLabel, <<" ">>, "nan", 0, TRUE),
      Form(0, MemAvailableLabel, <<" ">>, "big", 0, TRUE),
      Form(0, OtherLabel, <<" ">>, "num", 9, TRUE) }

StatusForms ==
    { Form(0, NameLabel, <<" ">>, "nan", 0, FALSE),
      Form(0, VmRSSLabel, Spaces(3), "num", 1234, TRUE),
      Form(0, VmRSSLabel, <<"\t">>, "num", 42, FALSE),
      Form(0, VmRSSLabel, <<>>, "num", 77, TRUE),
      Form(1, VmRSSLabel, <<" ">>, "num", 5, TRUE),
      Form(0, VmRSSLabel, <<" ">>, "nan", 0, TRUE),
      Form(0, VmRSSLabel, <<" ">>, "none", 0, FALSE),
      Form(0, VmRSSLabel, <<" ">>, "big", 0, TRUE) }

----------------------------------------------------------------------------
(* Calls of the two pure parsers *)

\* nothing of /proc has been read
NoFs == [meminfo |-> [kind |-> "unread"], dir |-> [kind |-> "unread"],
         comm |-> <<>>, status |-> <<>>]

Idle ==
    /\ collected = <<>> /\ procs = <<>> /\ n = 0 /\ direct = FALSE
    /\ fs = NoFs /\ opened = <<>>
    /\ stdout = <<>> /\ tick = 0 /\ exit = "running"

InitMeminfo ==
    /\ pc = "call"
    /\ doc \in SeqsUpTo(MeminfoForms, MaxLines)
    /\ content \in {Render(doc, FALSE), Render(doc, TRUE)}
    /\ ret = NoRet
    /\ Idle

CallParseMeminfo ==
    /\ pc = "call"
    /\ ret' = parse_meminfo(content)
    /\ pc' = "returned"
    /\ UNCHANGED <<doc, content, collected, procs, n, direct, fs, opened, stdout,
                   tick, exit>>

NextMeminfo == CallParseMeminfo

SpecMeminfo == InitMeminfo /\ [][NextMeminfo]_vars

InitStatus ==
    /\ pc = "call"
    /\ doc \in SeqsUpTo(StatusForms, MaxLines)
    /\ content \in {Render(doc, FALSE), Render(doc, TRUE)}
    /\ ret = NoRet
    /\ Idle

CallParseProcessStatus ==
    /\ pc = "call"
    /\ ret' = parse_process_status(content)
    /\ pc' = "returned"
    /\ UNCHANGED <<doc, content, collected, procs, n, direct, fs, opened, stdout,
                   tick, exit>>

NextStatus == CallParseProcessStatus

SpecStatus == InitStatus /\ [][NextStatus]_vars

----------------------------------------------------------------------------
(* Claims about parse_meminfo *)

\* the rendered line starts with the label
Prefixed(f, label) == f.lead = 0 /\ f.label = label

PrefixedAt(d, label) == {i \in 1..Len(d) : Prefixed(d[i], label)}

\* the number written on the last line that starts with the label
LastNum(d, label) ==
    d[CHOOSE i \in PrefixedAt(d, label) : \A j \in PrefixedAt(d, label) : j <= i].num

\* both fields are there, and every line carrying one of the two labels
\* gives a decimal number after it
MeminfoComplete(d) ==
    /\ PrefixedAt(d, MemTotalLabel) # {}
    /\ PrefixedAt(d, MemAvailableLabel) # {}
    /\ \A i \in PrefixedAt(d, MemTotalLabel) \cup PrefixedAt(d, MemAvailableLabel) :
          d[i].tok = "num"

\* a field is absent, or a line carrying a label has no token, a token that
\* is no number, or a number above u64::MAX
MeminfoDefective(d) ==
    \/ PrefixedAt(d, MemTotalLabel) = {}
    \/ PrefixedAt(d, MemAvailableLabel) = {}
    \/ \E i \in PrefixedAt(d, MemTotalLabel) \cup PrefixedAt(d, MemAvailableLabel) :
          d[i].tok \in {"none", "nan", "big"}

\* C1: a text with a MemTotal: line and a MemAvailable: line, each followed by
\* a decimal number, parses to Ok of exactly those two numbers, whatever the
\* order of the lines, the whitespace and the unrelated lines around them
\* (of several lines with one label, the last one counts).
C1_MeminfoRecovered ==
    (pc = "returned" /\ MeminfoComplete(doc))
        => ret = Ok(<<LastNum(doc, MemTotalLabel), LastNum(doc, MemAvailableLabel)>>)

\* MemAvailable first, an unrelated line between, MemTotal last
C1_Witness ==
    /\ pc = "returned"
    /\ Len(doc) = 3
    /\ Prefixed(doc[1], MemAvailableLabel) /\ doc[1].num = 2345678
    /\ doc[2].label = OtherLabel
    /\ Prefixed(doc[3], MemTotalLabel) /\ doc[3].num = 16384256
    /\ ret = Ok(<<16384256, 2345678>>)

\* C2: parse_meminfo returns an Err (no panic, no Ok) whenever one of the two
\* fields is absent or its value token is missing or no valid unsigned integer.
C2_StructuredFailure ==
    (pc = "returned" /\ MeminfoDefective(doc)) => ret.kind = "Err"

----------------------------------------------------------------------------
(* Claims about parse_process_status *)

LabelledAt(d, label) == {i \in 1..Len(d) : d[i].label = label}

\* C3 as stated: a text whose VmRSS: lines all carry a number parses to Some
\* of such a number, whatever whitespace (none included) stands before the
\* label or between label and value.
C3_AnyWhitespace ==
    (/\ pc = "returned"
     /\ LabelledAt(doc, VmRSSLabel) # {}
     /\ \A i \in LabelledAt(doc, VmRSSLabel) : doc[i].tok = "num")
        => \E i \in LabelledAt(doc, VmRSSLabel) : ret = Some(doc[i].num)

FirstPrefixed(d, label) ==
    CHOOSE i \in PrefixedAt(d, label) : \A j \in PrefixedAt(d, label) : i <= j

\* C3 amended: when the first line that begins with VmRSS: has whitespace
\* and then a decimal number after the label, the result is Some of that
\* number, however much whitespace there is and whatever follows the number.
C3_SecondField ==
    (/\ pc = "returned"
     /\ PrefixedAt(doc, VmRSSLabel) # {}
     /\ doc[FirstPrefixed(doc, VmRSSLabel)].gap # <<>>
     /\ doc[FirstPrefixed(doc, VmRSSLabel)].tok = "num")
        => ret = Some(doc[FirstPrefixed(doc, VmRSSLabel)].num)

\* a Name: line, then VmRSS:<tab>42 with no unit
C3_Witness ==
    /\ pc = "returned"
    /\ Len(doc) >= 2
    /\ doc[1].label = NameLabel
    /\ Prefixed(doc[2], VmRSSLabel) /\ doc[2].gap = <<"\t">> /\ doc[2].num = 42
    /\ ret = Some(42)

\* C4: a text with no line beginning with VmRSS: parses to None, and the
\* parser neither fails nor panics.
C4_NotFound ==
    (pc = "returned" /\ PrefixedAt(doc, VmRSSLabel) = {}) => ret = None

\* the label is there, but behind a blank
C4_Witness ==
    /\ pc = "returned"
    /\ LabelledAt(doc, VmRSSLabel) # {}
    /\ PrefixedAt(doc, VmRSSLabel) = {}
    /\ ret = None

----------------------------------------------------------------------------
(* Process reading and listing.  A read is what fs::read_to_string gave:   *)
(* Err, or Ok of the file's text.                                          *)

\* fs::read_to_string(path).ok()? then parse_process_status
read_process_status_or_zero(read) ==
    IF read.kind = "Err" THEN Some(0)
    ELSE LET r == parse_process_status(read.val)
         IN IF r.kind = "None" THEN Some(0) ELSE r

read_process_status(read) ==
    IF read.kind = "Err" THEN None ELSE parse_process_status(read.val)

\* fs::read_to_string(path).unwrap_or_default().trim().to_string()
read_process_comm(read) ==
    trim(IF read.kind = "Err" THEN <<>> ELSE read.val)

read_process_strict(commRead, statusRead) ==
    LET mem == read_process_status(statusRead)
    IN IF commRead.kind = "Err" \/ mem.kind = "None" THEN None
       ELSE Some(<<read_process_comm(commRead), mem.val>>)

\* the name is read first; the record needs the memory only
read_process(commRead, statusRead) ==
    LET name == read_process_comm(commRead)
        mem == read_process_status(statusRead)
    IN IF mem.kind = "None" THEN None ELSE Some(<<name, mem.val>>)

is_pid_any(name) == \E i \in 1..Len(name) : is_ascii_digit(name[i])

\* pid.chars().all(|c| c.is_ascii_digit())
is_pid(name) == \A i \in 1..Len(name) : is_ascii_digit(name[i])

\* the for loop of list_processes_from over the entries the iterator still
\* yields; the result carries the Vec and the entries whose files were read
RECURSIVE scan_entries(_, _, _, _, _)
scan_entries(entries, comm, status, out, seen) ==
    IF entries = <<>> THEN [ret |-> Ok(out), opened |-> seen]
    ELSE LET entry == Head(entries)
         IN IF entry.kind = "Err" THEN [ret |-> Err, opened |-> seen]
            ELSE LET pid == entry.val
                 IN IF is_pid(pid)
                    THEN LET r == read_process(comm[pid], status[pid])
                         IN scan_entries(Tail(entries), comm, status,
                                IF r.kind = "Some"
                                THEN Append(out, <<pid, r.val[1], r.val[2]>>)
                                ELSE out,
                                Append(seen, pid))
                    ELSE scan_entries(Tail(entries), comm, status, out, seen)

list_processes_from_default(dir, comm, status) ==
    IF dir.kind = "Err" THEN [ret |-> Ok(<<>>), opened |-> <<>>]
    ELSE scan_entries(dir.val, comm, status, <<>>, <<>>)

\* fs::read_dir(base)? then the loop
list_processes_from(dir, comm, status) ==
    IF dir.kind = "Err" THEN [ret |-> Err, opened |-> <<>>]
    ELSE scan_entries(dir.val, comm, status, <<>>, <<>>)

----------------------------------------------------------------------------
(* Sorting and printing *)

Min(a, b) == IF a < b THEN a ELSE b

\* x put behind every record that does not order after it: the compare is
\* b.2.cmp(&a.2), so x goes before the first record with less memory
RECURSIVE insert_desc(_, _)
insert_desc(sorted, x) ==
    IF sorted = <<>> THEN <<x>>
    ELSE IF Head(sorted)[3] < x[3] THEN <<x>> \o sorted
    ELSE <<Head(sorted)>> \o insert_desc(Tail(sorted), x)

RECURSIVE insert_asc(_, _)
insert_asc(sorted, x) ==
    IF sorted = <<>> THEN <<x>>
    ELSE IF Head(sorted)[3] > x[3] THEN <<x>> \o sorted
    ELSE <<Head(sorted)>> \o insert_asc(Tail(sorted), x)

RECURSIVE sort_by_ascending(_)
sort_by_ascending(ps) ==
    IF ps = <<>> THEN <<>>
    ELSE insert_asc(sort_by_ascending(SubSeq(ps, 1, Len(ps) - 1)), ps[Len(ps)])

\* procs.sort_by(|a, b| b.2.cmp(&a.2)): a stable sort, memory descending
RECURSIVE sort_by(_)
sort_by(ps) ==
    IF ps = <<>> THEN <<>>
    ELSE insert_desc(sort_by(SubSeq(ps, 1, Len(ps) - 1)), ps[Len(ps)])

\* {:<w}: left aligned, filled with blanks up to w characters, never cut
pad_left_aligned(s, w) == s \o Spaces(IF Len(s) < w THEN w - Len(s) ELSE 0)

\* width of the pid column
PidWidth == 6
\* width of the name column
NameWidth == 20

\* "{:<6} {:<20} {} kB"
format_row(p) ==
    pad_left_aligned(p[1], PidWidth) \o <<" ">> \o pad_left_aligned(p[2], NameWidth)
        \o <<" ">> \o to_decimal(p[3]) \o <<" ", "k", "B">>

\* "\nTop {} processes by memory:"
format_header(k) ==
    <<"\n", "T", "o", "p", " ">> \o to_decimal(k)
        \o <<" ", "p", "r", "o", "c", "e", "s", "s", "e", "s", " ", "b", "y", " ",
             "m", "e", "m", "o", "r", "y", ":">>

\* Iterator::take
take(ps, k) == SubSeq(ps, 1, Min(k, Len(ps)))

\* the lines print_top_processes writes
print_top_processes(ps, k) ==
    <<format_header(k)>> \o [i \in 1..Len(take(ps, k)) |-> format_row(take(ps, k)[i])]

\* u64::saturating_sub
saturating_sub(a, b) == IF a < b THEN 0 ELSE a - b

\* "Memory: total={}kB free={}kB used={}kB"
format_memory(total, free) ==
    <<"M", "e", "m", "o", "r", "y", ":", " ", "t", "o", "t", "a", "l", "=">>
        \o to_decimal(total)
        \o <<"k", "B", " ", "f", "r", "e", "e", "=">> \o to_decimal(free)
        \o <<"k", "B", " ", "u", "s", "e", "d", "=">>
        \o to_decimal(saturating_sub(total, free)) \o <<"k", "B">>

----------------------------------------------------------------------------
(* Calls of the presenter on collected records *)

\* the names of the processes
Sh == <<"s", "h">>

ProcRecords ==
    { <<<<"1">>, Sh, 500>>, <<<<"2", "2">>, Sh, 1500>>,
      <<<<"3">>, <<>>, 1000>>, <<<<"4">>, Sh, 1000>> }

InitPresenter ==
    /\ pc = "call"
    /\ collected \in SeqsUpTo(ProcRecords, MaxProcs)
    /\ procs = collected
    /\ n \in 0..(MaxProcs + 1)
    /\ direct = FALSE
    /\ doc = <<>> /\ content = <<>> /\ ret = NoRet
    /\ fs = NoFs /\ opened = <<>>
    /\ stdout = <<>> /\ tick = 0 /\ exit = "running"

\* print_top_processes(&procs, n) on the records as they were collected
CallPrintTopProcesses ==
    /\ pc = "call"
    /\ direct' = TRUE
    /\ stdout' = print_top_processes(procs, n)
    /\ pc' = "returned"
    /\ UNCHANGED <<doc, content, ret, collected, procs, n, fs, opened, tick, exit>>

\* what main does with the records: sort, then print_top_processes
SortAndPrint ==
    /\ pc = "call"
    /\ procs' = sort_by(procs)
    /\ stdout' = print_top_processes(procs', n)
    /\ pc' = "returned"
    /\ UNCHANGED <<doc, content, ret, collected, n, direct, fs, opened, tick, exit>>

NextPresenter == CallPrintTopProcesses \/ SortAndPrint

SpecPresenter == InitPresenter /\ [][NextPresenter]_vars

----------------------------------------------------------------------------
(* Claims about the presenter *)

\* rows are k = min(count, len) of the records, each once, in descending
\* order of memory, and no record left out has more memory than one shown
TopRows(rows, recs, count) ==
    /\ Len(rows) = Min(count, Len(recs))
    /\ \E idx \in [1..Len(rows) -> 1..Len(recs)] :
          /\ \A i, j \in 1..Len(rows) : i # j => idx[i] # idx[j]
          /\ \A i \in 1..Len(rows) : rows[i] = format_row(recs[idx[i]])
          /\ \A i, j \in 1..Len(rows) : i < j => recs[idx[i]][3] >= recs[idx[j]][3]
          /\ \A m \in 1..Len(recs) :
                (\A i \in 1..Len(rows) : idx[i] # m)
                    => \A i \in 1..Len(rows) : recs[m][3] <= recs[idx[i]][3]

\* rows are the first min(count, len) records, in the order given
FirstRows(rows, recs, count) ==
    /\ Len(rows) = Min(count, Len(recs))
    /\ \A i \in 1..Len(rows) : rows[i] = format_row(recs[i])

\* C5 as stated: whatever the order of the records it is given, the presenter
\* writes the header and then min(n, len) rows, the records with the most
\* memory in descending order.
C5_PresenterSorts ==
    pc = "returned"
        => /\ stdout # <<>> /\ stdout[1] = format_header(n)
           /\ TopRows(Tail(stdout), collected, n)

\* C5 amended: print_top_processes writes the header and then the first
\* min(n, len) records in the order given; after main's sort_by these are the
\* records with the most memory, in descending order.
C5_SortedThenTop ==
    pc = "returned"
        => /\ stdout # <<>> /\ stdout[1] = format_header(n)
           /\ direct => FirstRows(Tail(stdout), collected, n)
           /\ ~direct => TopRows(Tail(stdout), collected, n)

\* 500, 1500, 1000 and a count of 2 give the 1500 and the 1000 record
C5_Witness ==
    /\ pc = "returned" /\ ~direct /\ n = 2
    /\ Len(collected) = 3
    /\ collected[1][3] = 500 /\ collected[2][3] = 1500 /\ collected[3][3] = 1000
    /\ Len(stdout) = 3
    /\ stdout[2] = format_row(collected[2])
    /\ stdout[3] = format_row(collected[3])

----------------------------------------------------------------------------
(* main: the loop over /proc *)

\* the count main asks the presenter for
TopCount == 5

EntryNames == { <<"1">>, <<"2", "2">>, <<"s", "e", "l", "f">>, <<"7", "x">> }

\* what the directory iterator yields: an entry's file name, or an error
Entries == {Err} \cup {Ok(e) : e \in EntryNames}

\* the entries the loop consumes: names are distinct, and an error is the
\* last one consumed, because the loop returns on it
Listings ==
    { l \in SeqsUpTo(Entries, MaxEntries) :
        /\ \A i, j \in 1..Len(l) : (i # j /\ l[i].kind = "Ok") => l[i] # l[j]
        /\ \A i \in 1..Len(l) : l[i].kind = "Err" => i = Len(l) }

DirReads == {Err} \cup {Ok(l) : l \in Listings}

NamesOf(dir) ==
    IF dir.kind = "Err" THEN {}
    ELSE {dir.val[i].val : i \in {j \in 1..Len(dir.val) : dir.val[j].kind = "Ok"}}

CommReads == {Err, Ok(<<"s", "h", "\n">>)}

NameForm == Form(0, NameLabel, <<" ">>, "nan", 0, FALSE)

\* a status file that reports v kB of resident memory
StatusWith(v) ==
    Ok(Render(<<NameForm, Form(0, VmRSSLabel, Spaces(3), "num", v, TRUE)>>, TRUE))

RssValues == {42, 1234}

\* unreadable, without a VmRSS line (a kernel thread), or with one
StatusReads ==
    {Err, Ok(Render(<<NameForm>>, TRUE))} \cup {StatusWith(v) : v \in RssValues}

\* unreadable; the text of the unit test; more available than total; a
\* MemAvailable line without a number
MeminfoReads ==
    { Err,
      Ok(Render(<<Form(0, MemTotalLabel, Spaces(7), "num", 16384256, TRUE),
                  Form(0, MemAvailableLabel, Spaces(4), "num", 2345678, TRUE)>>,
                FALSE)),
      Ok(Render(<<Form(0, MemTotalLabel, <<>>, "num", 7, FALSE),
                  Form(0, MemAvailableLabel, Spaces(4), "num", 2345678, TRUE)>>,
                TRUE)),
      Ok(Render(<<Form(0, MemTotalLabel, Spaces(7), "num", 16384256, TRUE),
                  Form(0, MemAvailableLabel, <<" ">>, "nan", 0, TRUE)>>, TRUE)) }

Init ==
    /\ pc = "meminfo"
    /\ doc = <<>> /\ content = <<>> /\ ret = NoRet
    /\ n = 0 /\ direct = FALSE
    /\ collected = <<>> /\ procs = <<>>
    /\ fs = NoFs /\ opened = <<>>
    /\ stdout = <<>> /\ tick = 0 /\ exit = "running"

\* let (total, free) = read_meminfo_from("/proc/meminfo")?; println!(...)
MainReadMeminfo ==
    /\ pc = "meminfo"
    /\ \E read \in MeminfoReads :
          LET r == read_meminfo_from(read)
          IN /\ fs' = [fs EXCEPT !.meminfo = read]
             /\ ret' = r
             /\ IF r.kind = "Ok"
                THEN /\ stdout' = Append(stdout, format_memory(r.val[1], r.val[2]))
                     /\ pc' = "list"
                     /\ exit' = exit
                ELSE /\ stdout' = stdout
                     /\ pc' = "exited"
                     /\ exit' = r.kind
    /\ UNCHANGED <<doc, content, collected, procs, n, direct, opened, tick>>

\* let mut procs = list_processes_from("/proc")?; procs.sort_by(...)
MainListProcesses ==
    /\ pc = "list"
    /\ \E dir \in DirReads :
        \E comm \in [NamesOf(dir) -> CommReads], status \in [NamesOf(dir) -> StatusReads] :
          LET r == list_processes_from(dir, comm, status)
          IN /\ fs' = [fs EXCEPT !.dir = dir, !.comm = comm, !.status = status]
             /\ ret' = r.ret
             /\ opened' = r.opened
             /\ IF r.ret.kind = "Ok"
                THEN /\ collected' = r.ret.val
                     /\ procs' = sort_by(r.ret.val)
                     /\ pc' = "print"
                     /\ exit' = exit
                ELSE /\ UNCHANGED <<collected, procs>>
                     /\ pc' = "exited"
                     /\ exit' = "Err"
    /\ UNCHANGED <<doc, content, n, direct, stdout, tick>>

\* print_top_processes(&procs, 5)
MainPrint ==
    /\ pc = "print"
    /\ n' = TopCount
    /\ stdout' = stdout \o print_top_processes(procs, TopCount)
    /\ pc' = "sleep"
    /\ UNCHANGED <<doc, content, ret, collected, procs, direct, fs, opened, tick, exit>>

\* thread::sleep(Duration::from_secs(1)), and the next iteration begins: the
\* values of the iteration are dropped
MainSleep ==
    /\ pc = "sleep"
    /\ tick < MaxTicks
    /\ tick' = tick + 1
    /\ pc' = "meminfo"
    /\ ret' = NoRet /\ n' = 0
    /\ collected' = <<>> /\ procs' = <<>>
    /\ fs' = NoFs /\ opened' = <<>>
    /\ stdout' = <<>>
    /\ UNCHANGED <<doc, content, direct, exit>>

Next == MainReadMeminfo \/ MainListProcesses \/ MainPrint \/ MainSleep

Spec == Init /\ [][Next]_vars

----------------------------------------------------------------------------
(* Claims about the scanner and the loop *)

\* list_processes_from has returned in this iteration
Listed == fs.dir.kind # "unread"

\* list_processes_from has returned Ok in this iteration
Scanned == pc \in {"print", "sleep"}

OnlyDigits(name) ==
    \A i \in 1..Len(name) :
        name[i] \in {"0", "1", "2", "3", "4", "5", "6", "7", "8", "9"}

\* the status file of the entry was read and reports its resident memory
MemoryOk(read) == \E v \in RssValues : read = StatusWith(v)

MemoryOf(read) == CHOOSE v \in RssValues : read = StatusWith(v)

RecordsOf(pid) == {i \in 1..Len(collected) : collected[i][1] = pid}

\* C6: every record's pid is the name of a directory entry made of decimal
\* digits only; an entry with any other character in its name gives no
\* record and none of its files is read.
C6_OnlyNumericEntries ==
    Listed
        => /\ \A i \in 1..Len(collected) :
                 collected[i][1] \in NamesOf(fs.dir) /\ OnlyDigits(collected[i][1])
           /\ \A i \in 1..Len(opened) : OnlyDigits(opened[i])

\* `self` is listed, with readable comm and status, next to a process
C6_Witness ==
    /\ pc = "print"
    /\ <<"s", "e", "l", "f">> \in NamesOf(fs.dir)
    /\ MemoryOk(fs.status[<<"s", "e", "l", "f">>])
    /\ fs.comm[<<"s", "e", "l", "f">>].kind = "Ok"
    /\ Len(collected) = 1 /\ collected[1][1] = <<"1">>

\* C7 as stated: every record belongs to a pid whose comm read and whose
\* memory lookup both succeeded; a pid for which either failed has no record.
C7_BothLookups ==
    Scanned
        => /\ \A i \in 1..Len(collected) :
                 /\ fs.comm[collected[i][1]].kind = "Ok"
                 /\ MemoryOk(fs.status[collected[i][1]])
           /\ \A pid \in NamesOf(fs.dir) :
                 (fs.comm[pid].kind = "Err" \/ ~MemoryOk(fs.status[pid]))
                     => RecordsOf(pid) = {}

\* C7 amended: every record belongs to a pid whose memory lookup succeeded,
\* and carries the memory it reported; a pid whose memory lookup failed has
\* no record (the comm read need not have succeeded).
C7_MemoryLookup ==
    Scanned
        => /\ \A i \in 1..Len(collected) :
                 /\ collected[i][1] \in NamesOf(fs.dir)
                 /\ MemoryOk(fs.status[collected[i][1]])
                 /\ collected[i][3] = MemoryOf(fs.status[collected[i][1]])
           /\ \A pid \in NamesOf(fs.dir) :
                 ~MemoryOk(fs.status[pid]) => RecordsOf(pid) = {}

\* one process whose status cannot be read, one that is reported
C7_Witness ==
    /\ pc = "print"
    /\ NamesOf(fs.dir) = { <<"1">>, <<"2", "2">> }
    /\ fs.status[<<"1">>].kind = "Err" /\ fs.comm[<<"1">>].kind = "Ok"
    /\ MemoryOk(fs.status[<<"2", "2">>])
    /\ Len(collected) = 1 /\ collected[1][1] = <<"2", "2">>

\* C8: a numeric entry has a record exactly when its memory lookup succeeds;
\* a failed comm read gives the record an empty name and does not drop it.
C8_RecordIffMemory ==
    Scanned
        => \A pid \in NamesOf(fs.dir) :
              OnlyDigits(pid)
                  => /\ Cardinality(RecordsOf(pid))
                            = (IF MemoryOk(fs.status[pid]) THEN 1 ELSE 0)
                     /\ \A i \in RecordsOf(pid) :
                            collected[i][2]
                                = (IF fs.comm[pid].kind = "Err" THEN <<>> ELSE Sh)

\* comm unreadable, status readable: reported without a name
C8_Witness ==
    /\ pc = "print"
    /\ <<"1">> \in NamesOf(fs.dir)
    /\ fs.comm[<<"1">>].kind = "Err"
    /\ fs.status[<<"1">>] = StatusWith(1234)
    /\ \E i \in 1..Len(collected) : collected[i] = <<<<"1">>, <<>>, 1234>>

\* the entries the iterator yielded without an error
AllEntriesOk(dir) ==
    dir.kind = "Ok" /\ \A i \in 1..Len(dir.val) : dir.val[i].kind = "Ok"

\* C9: an iteration in which the read of /proc/meminfo fails ends the
\* program with the propagated error, and nothing runs or is printed after
\* it; an iteration in which only reads of comm or status fail prints its
\* output and goes on to the next iteration.
C9_MeminfoFatalProcessTolerated ==
    [][ /\ (pc = "meminfo" /\ fs'.meminfo.kind = "Err")
            => (pc' = "exited" /\ exit' = "Err" /\ stdout' = stdout /\ tick' = tick)
        /\ pc = "exited"
            => (pc' = "exited" /\ stdout' = stdout /\ tick' = tick)
        /\ (pc = "list" /\ AllEntriesOk(fs'.dir))
            => (pc' = "print" /\ exit' = "running")
        /\ pc = "print"
            => /\ pc' = "sleep" /\ exit' = "running"
               /\ Len(stdout') = Len(stdout) + 1 + Min(TopCount, Len(procs))
        /\ pc = "sleep"
            => (pc' = "meminfo" /\ tick' = tick + 1 /\ exit' = "running")
      ]_vars

\* after a completed iteration, the read of /proc/meminfo fails
C9_Witness ==
    /\ pc = "exited" /\ exit = "Err"
    /\ fs.meminfo.kind = "Err"
    /\ tick >= 1
    /\ stdout = <<>>

\* C10 as stated: once read_dir has opened the listing, list_processes_from
\* returns Ok, whatever fails for an entry.
C10_OnlyOpenFails ==
    (Listed /\ fs.dir.kind = "Ok") => ret.kind = "Ok"

\* C10 amended: list_processes_from returns an error exactly when read_dir
\* fails or the iterator yields an error for an entry; no failed read of a
\* comm or status file makes it return an error.
C10_ListingFails ==
    Listed
        => /\ ret.kind \in {"Ok", "Err"}
           /\ ret.kind = "Err" <=> ~AllEntriesOk(fs.dir)
           /\ ret.kind = "Err" => (pc = "exited" /\ exit = "Err")

\* every read for the one listed process fails, and the result is Ok([])
C10_Witness ==
    /\ pc = "print"
    /\ NamesOf(fs.dir) = { <<"1">> }
    /\ fs.comm[<<"1">>].kind = "Err" /\ fs.status[<<"1">>].kind = "Err"
    /\ ret = Ok(<<>>)

====
